---- MODULE Spec2Model ----
\* Vault security and lifecycle core of passmanager: the PasswordManager
\* (pkg/manager/manager.go) over the SQLite storage service and the AES-GCM
\* crypto service.  One action per exported PasswordManager method; every
\* storage, crypto and file call a method makes is part of its action.
EXTENDS Integers, Sequences, FiniteSets, TLC

\* ------------------------------------------------------------------ bounds
\* master passwords a caller may type: 1..MaxPw
MaxPw == 2
\* number of salts crypto/rand hands out in one run
MaxSalt == 3
\* number of nonces crypto/rand hands out in one run
MaxNonce == 8
\* cap on the AUTOINCREMENT counter of the passwords table
MaxId == 4
\* number of PasswordManager calls in one run
MaxCalls == 5
\* longest password asked of the generator
MaxLength == 2

MasterPasswords == 1..MaxPw
Ids == 1..MaxId
Filenames == {"backup"}

\* entries a caller may pass to AddPassword / UpdatePassword (models.PasswordEntry
\* without ID and timestamps); all strings are valid UTF-8 text
EntryInputs ==
  { [Title |-> "t1", URL |-> "x1", Username |-> "u1", Password |-> "a",
     Notes |-> "", Category |-> "c1"],
    [Title |-> "t2", URL |-> "x2", Username |-> "u2", Password |-> "b",
     Notes |-> "n", Category |-> "c2"] }

\* ------------------------------------------------------------------ errors
\* the distinct errors the methods return, named by their message
OK == "nil"
ErrNotInitialized == "password manager not initialized"
ErrInvalidMaster == "invalid master password"
ErrNoSalt == "failed to get salt: no salt found, please create a master password first"
ErrGetSalt == "failed to get salt: <storage error>"
ErrSaveSalt == "failed to save salt: <storage error>"
ErrGetTestVector == "failed to get test vector: <storage error>"
ErrSaveTestVector == "failed to save test vector: <storage error>"
ErrEncryptTest == "failed to encrypt test vector: crypto/aes: invalid key size"
ErrDB == "<storage error>"
ErrNoRows == "sql: no rows in result set"
ErrKeySize == "crypto/aes: invalid key size"
ErrShort == "ciphertext too short"
ErrAuth == "cipher: message authentication failed"
ErrBase64 == "illegal base64 data"
ErrReadFile == "<read file error>"
ErrWriteFile == "<write file error>"

\* errors that report a failure of the persistence store
StorageErrors == {ErrGetSalt, ErrSaveSalt, ErrGetTestVector, ErrSaveTestVector,
                  ErrDB}

\* ------------------------------------------------------------------ command line
\* the text of an error message, cut where the text "no salt found" starts
\* and ends; the text of a storage error is the database driver's
ErrorText(err) ==
  IF err = ErrNoSalt
  THEN <<"failed to get salt: ", "no salt found",
         ", please create a master password first">>
  ELSE <<err>>

\* strings.Contains(err.Error(), substr) for a substr the messages are cut at
Contains(err, substr) ==
  \E i \in DOMAIN ErrorText(err) : ErrorText(err)[i] = substr

\* unlockVault of the command line that offers creation after every error
OffersCreationOnAnyError(err) == err # OK

\* unlockVault of the command line that also offers creation after a wrong
\* master password
OffersCreationAfterWrongPassword(err) ==
  err # OK /\ (Contains(err, "no salt found") \/ err = ErrInvalidMaster)

\* unlockVault of the command line: after a failed UnlockVault it goes on to
\* createMasterPassword when the message contains "no salt found"
OffersCreation(err) == err # OK /\ Contains(err, "no salt found")

\* ------------------------------------------------------------------ crypto
\* a nil []byte key (PasswordManager.masterKey before any unlock)
NoKey == [pw |-> 0, salt |-> 0]

\* argon2.IDKey: deterministic, and distinct (password, salt) pairs give
\* distinct keys
DeriveKey(password, salt) == [pw |-> password, salt |-> salt]

\* byte strings: kind "nil" is a nil/empty []byte; kind "ct" is
\* nonce || AES-GCM(key, nonce, pt) when enc = 0, and the ASCII text of the
\* base64 encoding applied enc times to that blob when enc > 0
NilBytes == [kind |-> "nil", key |-> NoKey, nonce |-> 0, pt |-> "", enc |-> 0]

\* Encrypt: gcm.Seal(nonce, nonce, plaintext, nil) under the nonce read from
\* rand.Reader; aes.NewCipher rejects a nil key
Encrypt(plaintext, key, nonce) ==
  IF key = NoKey
  THEN [err |-> ErrKeySize, val |-> NilBytes]
  ELSE [err |-> OK,
        val |-> [kind |-> "ct", key |-> key, nonce |-> nonce,
                 pt |-> plaintext, enc |-> 0]]

\* Decrypt that does not verify the GCM tag against the key
DecryptNoAuth(ciphertext, key) ==
  IF key = NoKey THEN [err |-> ErrKeySize, val |-> ""]
  ELSE IF ciphertext.kind = "nil" THEN [err |-> ErrShort, val |-> ""]
  ELSE IF ciphertext.enc > 0 THEN [err |-> ErrAuth, val |-> ""]
  ELSE [err |-> OK, val |-> ciphertext.pt]

\* Decrypt: fails on a nil key, on input shorter than a nonce, and when the
\* GCM tag does not verify (other key, or bytes that are not a blob)
Decrypt(ciphertext, key) ==
  IF key = NoKey THEN [err |-> ErrKeySize, val |-> ""]
  ELSE IF ciphertext.kind = "nil" THEN [err |-> ErrShort, val |-> ""]
  ELSE IF ciphertext.enc > 0 \/ ciphertext.key # key
       THEN [err |-> ErrAuth, val |-> ""]
  ELSE [err |-> OK, val |-> ciphertext.pt]

\* VerifyKey that accepts every candidate key
VerifyKeyAny(key, testVector) == TRUE

\* VerifyKey that accepts every key when there is no test vector
VerifyKeyAbsentOk(key, testVector) ==
  testVector.kind = "nil" \/ Decrypt(testVector, key).err = OK

\* VerifyKey: err == nil of Decrypt, never an error itself
VerifyKey(key, testVector) == Decrypt(testVector, key).err = OK

\* base64.StdEncoding.EncodeToString, and the bytes of the resulting text
Base64Encode(b) ==
  IF b.kind = "nil" THEN b ELSE [b EXCEPT !.enc = @ + 1]

\* base64.StdEncoding.DecodeString: a raw GCM blob is not base64 text
Base64Decode(b) ==
  IF b.kind = "nil" THEN [err |-> OK, val |-> b]
  ELSE IF b.enc = 0 THEN [err |-> ErrBase64, val |-> NilBytes]
  ELSE [err |-> OK, val |-> [b EXCEPT !.enc = @ - 1]]

testData == "This is a test string to verify the master password."

\* ------------------------------------------------------------------ state
VARIABLES
  initialized,   \* PasswordManager.initialized
  masterKey,     \* PasswordManager.masterKey
  dbOpen,        \* SQLiteStorage.db is an open connection
  config,        \* table config: key -> value
  passwords,     \* table passwords: id -> row
  seq,           \* sqlite_sequence of passwords (AUTOINCREMENT)
  files,         \* file system: filename -> content
  lastOp,        \* the last method called: its arguments, result and I/O calls
  createdWith,   \* history: password of the creation that made the persisted
                 \* vault, 0 when no creation has completed since the last try
  written,       \* history: id -> <<password, notes>> last written by
                 \* AddPassword/UpdatePassword into the current vault
  ncalls,        \* history: number of calls made so far
  nsalt,         \* crypto/rand: number of salts handed out so far
  nnonce,        \* crypto/rand: number of nonces handed out so far
  keyBuffer,     \* heap: content of the byte array pm.masterKey last pointed to
  produced,      \* history: <<key, nonce>> of every blob Encrypt has returned
  lockedByLock,  \* history: Lock was called on this manager and no
                 \* CreateMasterPassword or UnlockVault has succeeded since
  inflight,      \* a second caller's GetPassword that has passed the
                 \* initialized check and not yet used the key
  options,       \* generator: the PasswordOptions of the running call
  result,        \* generator: the runes drawn so far in the current attempt
  pc,            \* generator: position of the running GeneratePassword call
  ret            \* generator: what GeneratePassword returned

vaultVars == <<initialized, masterKey, dbOpen, config, passwords, seq, files,
               lastOp, createdWith, written, ncalls, nsalt, nnonce, keyBuffer,
               produced, lockedByLock, inflight>>

genVars == <<options, result, pc, ret>>

vars == <<vaultVars, genVars>>

store == <<config, passwords, seq>>

EmptyMap == [x \in {} |-> 0]

Put(f, k, v) == [x \in DOMAIN f \cup {k} |-> IF x = k THEN v ELSE f[x]]

\* a removal that takes the neighbouring key along
RemoveWithNext(f, k) == [x \in DOMAIN f \ {k, k + 1} |-> f[x]]

Remove(f, k) == [x \in DOMAIN f \ {k} |-> f[x]]

\* record of one call: the method, its argument (password, id or filename),
\* the error it returned, its output, the storage and file calls it made, and
\* the one of them that was made to fail
Call(op, arg, err, out, calls) ==
  [op |-> op, arg |-> arg, err |-> err, out |-> out, calls |-> calls,
   fault |-> "none"]

Faulted(call, fault) == [call EXCEPT !.fault = fault]

\* one more call of the run, made on the manager while no password is being
\* generated
Tick ==
  /\ ncalls < MaxCalls
  /\ ncalls' = ncalls + 1
  /\ UNCHANGED <<genVars, inflight>>

\* no GeneratePassword call is running
NoOptions ==
  [Length |-> 0, IncludeLowercase |-> FALSE, IncludeUppercase |-> FALSE,
   IncludeNumbers |-> FALSE, IncludeSymbols |-> FALSE,
   ExcludeSimilar |-> FALSE, ExcludeAmbiguous |-> FALSE]

GeneratorIdle ==
  /\ options = NoOptions
  /\ result = <<>>
  /\ pc = "idle"
  /\ ret = [val |-> <<>>, err |-> OK]

\* no GetPassword of a second caller is under way
NoCall == [pc |-> "idle", id |-> 0, key |-> NoKey]

\* NewPasswordManager + Initialize on a new database file
VaultInit ==
  /\ initialized = FALSE
  /\ masterKey = NoKey
  /\ dbOpen = TRUE
  /\ config = EmptyMap
  /\ passwords = EmptyMap
  /\ seq = 0
  /\ files = EmptyMap
  /\ lastOp = Call("Initialize", 0, OK, <<>>, <<>>)
  /\ createdWith = 0
  /\ written = EmptyMap
  /\ ncalls = 0
  /\ nsalt = 0
  /\ nnonce = 0
  /\ keyBuffer = NoKey
  /\ produced = <<>>
  /\ lockedByLock = FALSE
  /\ inflight = NoCall

Init == VaultInit /\ GeneratorIdle

\* ------------------------------------------------------------------ storage
\* SaveSalt / SaveTestVector: INSERT OR REPLACE INTO config
SaveSalt(cfg, salt) == Put(cfg, "salt", salt)

\* SaveTestVector that reports success and writes nothing
SaveTestVectorNothing(cfg, vector) == cfg

SaveTestVector(cfg, vector) == Put(cfg, "test_vector", vector)

\* GetTestVector: a missing row is (nil, nil)
GetTestVector(cfg) ==
  IF "test_vector" \in DOMAIN cfg THEN cfg["test_vector"] ELSE NilBytes

\* ------------------------------------------------------------------ lifecycle
\* GenerateSalt: 16 bytes of crypto/rand, which no earlier call returned
GenerateSalt == nsalt + 1

\* the i-th next nonce Encrypt reads from rand.Reader: 12 bytes that no
\* earlier call read
RandNonce(i) == nnonce + i

\* CreateMasterPassword(masterPassword); fail names the storage call that
\* returns an error
CreateMasterPassword(pw) ==
  /\ Tick
  /\ nsalt < MaxSalt
  /\ nsalt' = nsalt + 1
  /\ nnonce < MaxNonce
  /\ \E fail \in {"none", "SaveSalt", "SaveTestVector"} :
    LET salt == GenerateSalt
        nonce == RandNonce(1)
        key == DeriveKey(pw, salt)
        enc == Encrypt(testData, key, nonce)
        cfg1 == SaveSalt(config, salt)
    IN
    IF ~dbOpen \/ fail = "SaveSalt"
    THEN /\ lastOp' = Faulted(Call("CreateMasterPassword", pw, ErrSaveSalt,
                                   <<>>, <<"SaveSalt">>), "SaveSalt")
         /\ UNCHANGED <<initialized, masterKey, dbOpen, config, passwords,
                        seq, files, createdWith, written, nnonce, keyBuffer, produced, lockedByLock>>
    ELSE IF enc.err # OK
    THEN /\ masterKey' = key
         /\ config' = cfg1
         /\ createdWith' = 0
         /\ written' = EmptyMap
         /\ lastOp' = Call("CreateMasterPassword", pw, ErrEncryptTest, <<>>,
                           <<"SaveSalt">>)
         /\ keyBuffer' = key
         /\ UNCHANGED <<initialized, dbOpen, passwords, seq, files, nnonce,
                        produced, lockedByLock>>
    ELSE IF fail = "SaveTestVector"
    THEN /\ masterKey' = key
         /\ config' = cfg1
         /\ createdWith' = 0
         /\ written' = EmptyMap
         /\ lastOp' = Faulted(Call("CreateMasterPassword", pw,
                                   ErrSaveTestVector, <<>>,
                                   <<"SaveSalt", "SaveTestVector">>),
                              "SaveTestVector")
         /\ nnonce' = nnonce + 1
         /\ keyBuffer' = key
         /\ produced' = Append(produced, <<key, nonce>>)
         /\ UNCHANGED <<initialized, dbOpen, passwords, seq, files,
                        lockedByLock>>
    ELSE /\ masterKey' = key
         /\ config' = SaveTestVector(cfg1, enc.val)
         /\ initialized' = TRUE
         /\ createdWith' = pw
         /\ written' = EmptyMap
         /\ lastOp' = Call("CreateMasterPassword", pw, OK, <<>>,
                           <<"SaveSalt", "SaveTestVector">>)
         /\ nnonce' = nnonce + 1
         /\ keyBuffer' = key
         /\ produced' = Append(produced, <<key, nonce>>)
         /\ lockedByLock' = FALSE
         /\ UNCHANGED <<dbOpen, passwords, seq, files>>

\* UnlockVault that empties the passwords table after a wrong master password
UnlockVaultWipes(pw) ==
  /\ Tick
  /\ \E fail \in {"none", "GetSalt", "GetTestVector"} :
    LET salt == config["salt"]
        key == DeriveKey(pw, salt)
        testVector == GetTestVector(config)
        keep == UNCHANGED <<initialized, masterKey, dbOpen, config, passwords,
                            seq, files, createdWith, written, nsalt, nnonce, keyBuffer, produced, lockedByLock>>
    IN
    IF ~dbOpen \/ fail = "GetSalt"
    THEN /\ lastOp' = Faulted(Call("UnlockVault", pw, ErrGetSalt, <<>>,
                                   <<"GetSalt">>), "GetSalt")
         /\ keep
    ELSE IF "salt" \notin DOMAIN config
    THEN /\ lastOp' = Call("UnlockVault", pw, ErrNoSalt, <<>>, <<"GetSalt">>)
         /\ keep
    ELSE IF fail = "GetTestVector"
    THEN /\ lastOp' = Faulted(Call("UnlockVault", pw, ErrGetTestVector, <<>>,
                                   <<"GetSalt", "GetTestVector">>),
                              "GetTestVector")
         /\ keep
    ELSE IF ~VerifyKey(key, testVector)
    THEN /\ lastOp' = Call("UnlockVault", pw, ErrInvalidMaster, <<>>,
                           <<"GetSalt", "GetTestVector">>)
         /\ passwords' = EmptyMap
         /\ UNCHANGED <<initialized, masterKey, dbOpen, config, seq, files,
                        createdWith, written, nsalt, nnonce, keyBuffer,
                        produced, lockedByLock>>
    ELSE /\ masterKey' = key
         /\ initialized' = TRUE
         /\ lastOp' = Call("UnlockVault", pw, OK, <<>>,
                           <<"GetSalt", "GetTestVector">>)
         /\ keyBuffer' = key
         /\ lockedByLock' = FALSE
         /\ UNCHANGED <<dbOpen, config, passwords, seq, files, createdWith,
                        written, nsalt, nnonce, produced>>

\* UnlockVault(masterPassword)
UnlockVault(pw) ==
  /\ Tick
  /\ \E fail \in {"none", "GetSalt", "GetTestVector"} :
    LET salt == config["salt"]
        key == DeriveKey(pw, salt)
        testVector == GetTestVector(config)
        keep == UNCHANGED <<initialized, masterKey, dbOpen, config, passwords,
                            seq, files, createdWith, written, nsalt, nnonce, keyBuffer, produced, lockedByLock>>
    IN
    IF ~dbOpen \/ fail = "GetSalt"
    THEN /\ lastOp' = Faulted(Call("UnlockVault", pw, ErrGetSalt, <<>>,
                                   <<"GetSalt">>), "GetSalt")
         /\ keep
    ELSE IF "salt" \notin DOMAIN config
    THEN /\ lastOp' = Call("UnlockVault", pw, ErrNoSalt, <<>>, <<"GetSalt">>)
         /\ keep
    ELSE IF fail = "GetTestVector"
    THEN /\ lastOp' = Faulted(Call("UnlockVault", pw, ErrGetTestVector, <<>>,
                                   <<"GetSalt", "GetTestVector">>),
                              "GetTestVector")
         /\ keep
    ELSE IF ~VerifyKey(key, testVector)
    THEN /\ lastOp' = Call("UnlockVault", pw, ErrInvalidMaster, <<>>,
                           <<"GetSalt", "GetTestVector">>)
         /\ keep
    ELSE /\ masterKey' = key
         /\ initialized' = TRUE
         /\ lastOp' = Call("UnlockVault", pw, OK, <<>>,
                           <<"GetSalt", "GetTestVector">>)
         /\ keyBuffer' = key
         /\ lockedByLock' = FALSE
         /\ UNCHANGED <<dbOpen, config, passwords, seq, files, createdWith,
                        written, nsalt, nnonce, produced>>

\* Lock that drops the key and leaves the initialized flag as it is
LockKeepsInitialized ==
  /\ Tick
  /\ masterKey' = NoKey
  /\ lastOp' = Call("Lock", 0, OK, <<>>, <<>>)
  /\ lockedByLock' = TRUE
  /\ UNCHANGED <<initialized, dbOpen, config, passwords, seq, files,
                 createdWith, written, nsalt, nnonce, keyBuffer, produced>>

\* Lock(): the reference is set to nil, the byte array it pointed to is not
\* written
Lock ==
  /\ Tick
  /\ masterKey' = NoKey
  /\ initialized' = FALSE
  /\ lastOp' = Call("Lock", 0, OK, <<>>, <<>>)
  /\ lockedByLock' = TRUE
  /\ UNCHANGED <<dbOpen, config, passwords, seq, files, createdWith, written,
                 nsalt, nnonce, keyBuffer, produced>>

\* Close that closes the connection without calling Lock
CloseNoLock ==
  /\ Tick
  /\ \E fail \in BOOLEAN :
    /\ dbOpen' = FALSE
    /\ lastOp' = Faulted(Call("Close", 0, IF fail THEN ErrDB ELSE OK, <<>>,
                              <<"Close">>),
                         IF fail THEN "Close" ELSE "none")
    /\ UNCHANGED <<initialized, masterKey, config, passwords, seq, files,
                   createdWith, written, nsalt, nnonce, keyBuffer, produced,
                   lockedByLock>>

\* Close(): Lock, then storage.Close; sql.DB.Close may report an error and
\* the connection is closed either way
Close ==
  /\ Tick
  /\ \E fail \in BOOLEAN :
    /\ masterKey' = NoKey
    /\ initialized' = FALSE
    /\ dbOpen' = FALSE
    /\ lastOp' = Faulted(Call("Close", 0, IF fail THEN ErrDB ELSE OK, <<>>,
                              <<"Close">>),
                         IF fail THEN "Close" ELSE "none")
    /\ lockedByLock' = TRUE
    /\ UNCHANGED <<config, passwords, seq, files, createdWith, written, nsalt,
                   nnonce, keyBuffer, produced>>

\* the next process: NewPasswordManager + Initialize over the same database
\* file, after the previous manager was closed
NewPasswordManager ==
  /\ Tick
  /\ ~dbOpen
  /\ initialized' = FALSE
  /\ masterKey' = NoKey
  /\ dbOpen' = TRUE
  /\ lastOp' = Call("Initialize", 0, OK, <<>>, <<>>)
  /\ keyBuffer' = NoKey
  /\ lockedByLock' = FALSE
  /\ UNCHANGED <<config, passwords, seq, files, createdWith, written, nsalt,
                 nnonce, produced>>

\* ------------------------------------------------------------------ records
\* the row AddPassword inserts / UpdatePassword sets (timestamps left out)
Row(entry, encPassword, encNotes) ==
  [title |-> entry.Title, url |-> entry.URL, username |-> entry.Username,
   password |-> encPassword, notes |-> encNotes, category |-> entry.Category]

\* EncryptFields that never stores the notes
EncryptFieldsNoNotes(entry, key, n1, n2) ==
  LET encPassword == Encrypt(entry.Password, key, n1)
  IN [err |-> encPassword.err, password |-> encPassword.val,
      notes |-> NilBytes]

\* EncryptFields that seals both fields under the nonce read for the first
EncryptFieldsSameNonce(entry, key, n1, n2) ==
  LET encPassword == Encrypt(entry.Password, key, n1)
      encNotes == IF entry.Notes # "" THEN Encrypt(entry.Notes, key, n1)
                  ELSE [err |-> OK, val |-> NilBytes]
  IN [err |-> IF encPassword.err # OK THEN encPassword.err ELSE encNotes.err,
      password |-> encPassword.val, notes |-> encNotes.val]

\* the encrypted fields of AddPassword / UpdatePassword: the password always,
\* the notes only when non-empty (otherwise a nil []byte, stored as NULL)
EncryptFields(entry, key, n1, n2) ==
  LET encPassword == Encrypt(entry.Password, key, n1)
      encNotes == IF entry.Notes # "" THEN Encrypt(entry.Notes, key, n2)
                  ELSE [err |-> OK, val |-> NilBytes]
  IN [err |-> IF encPassword.err # OK THEN encPassword.err ELSE encNotes.err,
      password |-> encPassword.val, notes |-> encNotes.val]

\* the <<key, nonce>> of the blobs one EncryptFields returned
Blobs(enc) ==
  <<<<enc.password.key, enc.password.nonce>>>> \o
  (IF enc.notes.kind = "ct" THEN <<<<enc.notes.key, enc.notes.nonce>>>>
   ELSE <<>>)

\* AddPassword(entry)
AddPassword(entry) ==
  /\ Tick
  /\ nnonce + 2 <= MaxNonce
  /\
    LET enc == EncryptFields(entry, masterKey, RandNonce(1), RandNonce(2))
        drawn == IF entry.Notes # "" THEN 2 ELSE 1
        id == seq + 1
        keep == UNCHANGED <<initialized, masterKey, dbOpen, config, passwords,
                            seq, files, createdWith, written, nsalt,
                            keyBuffer, lockedByLock>>
    IN
    IF ~initialized
    THEN /\ lastOp' = Call("AddPassword", 0, ErrNotInitialized, <<>>, <<>>)
         /\ keep /\ UNCHANGED <<nnonce, produced>>
    ELSE IF enc.err # OK
    THEN /\ lastOp' = Call("AddPassword", 0, enc.err, <<>>, <<>>)
         /\ keep /\ UNCHANGED <<nnonce, produced>>
    ELSE IF ~dbOpen
    THEN /\ lastOp' = Call("AddPassword", 0, ErrDB, <<>>, <<"AddPassword">>)
         /\ keep /\ nnonce' = nnonce + drawn
         /\ produced' = produced \o Blobs(enc)
    ELSE /\ seq < MaxId
         /\ passwords' = Put(passwords, id, Row(entry, enc.password, enc.notes))
         /\ seq' = id
         /\ written' = Put(written, id, <<entry.Password, entry.Notes>>)
         /\ lastOp' = Call("AddPassword", id, OK, <<>>, <<"AddPassword">>)
         /\ UNCHANGED <<initialized, masterKey, dbOpen, config, files,
                        createdWith, nsalt, keyBuffer, lockedByLock>>
         /\ nnonce' = nnonce + drawn
         /\ produced' = produced \o Blobs(enc)

\* the entry GetPassword returns for a row
Entry(id, row, password, notes) ==
  [ID |-> id, Title |-> row.title, URL |-> row.url, Username |-> row.username,
   Password |-> password, Notes |-> notes, Category |-> row.category]

\* GetPassword(id)
GetPassword(id) ==
  /\ Tick
  /\
    LET row == passwords[id]
        password == Decrypt(row.password, masterKey)
        notes == IF row.notes.kind # "nil" THEN Decrypt(row.notes, masterKey)
                 ELSE [err |-> OK, val |-> ""]
        err == IF ~initialized THEN ErrNotInitialized
               ELSE IF ~dbOpen THEN ErrDB
               ELSE IF id \notin DOMAIN passwords THEN ErrNoRows
               ELSE IF password.err # OK THEN password.err
               ELSE notes.err
    IN
    /\ lastOp' = Call("GetPassword", id, err,
                      IF err = OK
                      THEN <<Entry(id, row, password.val, notes.val)>>
                      ELSE <<>>,
                      IF initialized THEN <<"GetPassword">> ELSE <<>>)
    /\ UNCHANGED <<initialized, masterKey, dbOpen, config, passwords, seq,
                   files, createdWith, written, nsalt, nnonce, keyBuffer, produced, lockedByLock>>

\* UpdatePassword(entry): UPDATE ... WHERE id = entry.ID changes no row when
\* the id is absent and still returns nil
UpdatePassword(id, entry) ==
  /\ Tick
  /\ nnonce + 2 <= MaxNonce
  /\
    LET enc == EncryptFields(entry, masterKey, RandNonce(1), RandNonce(2))
        drawn == IF entry.Notes # "" THEN 2 ELSE 1
        keep == UNCHANGED <<initialized, masterKey, dbOpen, config, passwords,
                            seq, files, createdWith, written, nsalt,
                            keyBuffer, lockedByLock>>
    IN
    IF ~initialized
    THEN /\ lastOp' = Call("UpdatePassword", id, ErrNotInitialized, <<>>, <<>>)
         /\ keep /\ UNCHANGED <<nnonce, produced>>
    ELSE IF enc.err # OK
    THEN /\ lastOp' = Call("UpdatePassword", id, enc.err, <<>>, <<>>)
         /\ keep /\ UNCHANGED <<nnonce, produced>>
    ELSE IF ~dbOpen
    THEN /\ lastOp' = Call("UpdatePassword", id, ErrDB, <<>>,
                           <<"UpdatePassword">>)
         /\ keep /\ nnonce' = nnonce + drawn
         /\ produced' = produced \o Blobs(enc)
    ELSE /\ passwords' = IF id \in DOMAIN passwords
                         THEN Put(passwords, id,
                                  Row(entry, enc.password, enc.notes))
                         ELSE passwords
         /\ written' = IF id \in DOMAIN passwords
                       THEN Put(written, id, <<entry.Password, entry.Notes>>)
                       ELSE written
         /\ lastOp' = Call("UpdatePassword", id, OK, <<>>, <<"UpdatePassword">>)
         /\ UNCHANGED <<initialized, masterKey, dbOpen, config, seq, files,
                        createdWith, nsalt, keyBuffer, lockedByLock>>
         /\ nnonce' = nnonce + drawn
         /\ produced' = produced \o Blobs(enc)

\* DeletePassword without the initialized check
DeletePasswordUnguarded(id) ==
  /\ Tick
  /\ passwords' = Remove(passwords, id)
  /\ written' = Remove(written, id)
  /\ lastOp' = Call("DeletePassword", id, OK, <<>>, <<"DeletePassword">>)
  /\ UNCHANGED <<initialized, masterKey, dbOpen, config, seq, files,
                 createdWith, nsalt, nnonce, keyBuffer, produced, lockedByLock>>

\* DeletePassword on a table without AUTOINCREMENT: the next id is one more
\* than the largest id left
DeletePasswordReleasesId(id) ==
  /\ Tick
  /\ initialized /\ dbOpen
  /\ passwords' = Remove(passwords, id)
  /\ seq' = IF DOMAIN passwords' = {} THEN 0
            ELSE CHOOSE m \in DOMAIN passwords' :
                   \A x \in DOMAIN passwords' : x <= m
  /\ written' = Remove(written, id)
  /\ lastOp' = Call("DeletePassword", id, OK, <<>>, <<"DeletePassword">>)
  /\ UNCHANGED <<initialized, masterKey, dbOpen, config, files, createdWith,
                 nsalt, nnonce, keyBuffer, produced, lockedByLock>>

\* DeletePassword(id)
DeletePassword(id) ==
  /\ Tick
  /\
    LET keep == UNCHANGED <<initialized, masterKey, dbOpen, config, passwords,
                            seq, files, createdWith, written, nsalt, nnonce, keyBuffer, produced, lockedByLock>>
    IN
    IF ~initialized
    THEN /\ lastOp' = Call("DeletePassword", id, ErrNotInitialized, <<>>, <<>>)
         /\ keep
    ELSE IF ~dbOpen
    THEN /\ lastOp' = Call("DeletePassword", id, ErrDB, <<>>,
                           <<"DeletePassword">>)
         /\ keep
    ELSE /\ passwords' = Remove(passwords, id)
         /\ written' = Remove(written, id)
         /\ lastOp' = Call("DeletePassword", id, OK, <<>>, <<"DeletePassword">>)
         /\ UNCHANGED <<initialized, masterKey, dbOpen, config, seq, files,
                        createdWith, nsalt, nnonce, keyBuffer, produced, lockedByLock>>

\* ------------------------------------------------------------------ listing
\* queries a caller may pass to SearchPasswords (models.SearchParams)
SearchInputs ==
  { [Keyword |-> "", Category |-> "", SortBy |-> "", SortDesc |-> FALSE,
     Limit |-> 0, Offset |-> 0],
    [Keyword |-> "1", Category |-> "", SortBy |-> "id", SortDesc |-> TRUE,
     Limit |-> 1, Offset |-> 1],
    [Keyword |-> "", Category |-> "c2", SortBy |-> "title", SortDesc |-> FALSE,
     Limit |-> 2, Offset |-> 0] }

\* s LIKE '%' || keyword || '%' over the strings of EntryInputs
Like(s, keyword) ==
  \/ keyword = ""
  \/ keyword = s
  \/ keyword = "1" /\ s \in {"t1", "x1", "u1", "c1"}

\* title order of the strings of EntryInputs
TitleRank(t) == IF t = "t1" THEN 1 ELSE 2

\* the ids of S in the order ORDER BY sortBy ASC|DESC gives (ties by rowid)
OrderBy(S, sortBy, desc) ==
  LET k(i) == IF sortBy = "id" THEN i ELSE TitleRank(passwords[i].title)
      Before(i, j) == \/ (IF desc THEN k(i) > k(j) ELSE k(i) < k(j))
                      \/ k(i) = k(j) /\ i < j
  IN [n \in 1..Cardinality(S) |->
        CHOOSE i \in S : Cardinality({j \in S : Before(j, i)}) = n - 1]

\* a listing that selects the encrypted columns and decrypts them
ListingDecrypted(ids) ==
  [n \in DOMAIN ids |->
     Entry(ids[n], passwords[ids[n]],
           Decrypt(passwords[ids[n]].password, masterKey).val,
           Decrypt(passwords[ids[n]].notes, masterKey).val)]

\* the entries a listing query scans: Password and Notes are not selected
Listing(ids) == [n \in DOMAIN ids |-> Entry(ids[n], passwords[ids[n]], "", "")]

\* GetAllPasswords()
GetAllPasswords ==
  /\ Tick
  /\
    LET err == IF ~initialized THEN ErrNotInitialized
               ELSE IF ~dbOpen THEN ErrDB ELSE OK
    IN
    /\ lastOp' = Call("GetAllPasswords", 0, err,
                      IF err = OK
                      THEN Listing(OrderBy(DOMAIN passwords, "title", FALSE))
                      ELSE <<>>,
                      IF initialized THEN <<"GetAllPasswords">> ELSE <<>>)
    /\ UNCHANGED <<initialized, masterKey, dbOpen, config, passwords, seq,
                   files, createdWith, written, nsalt, nnonce, keyBuffer, produced, lockedByLock>>

\* SearchPasswords(params)
SearchPasswords(params) ==
  /\ Tick
  /\
    LET err == IF ~initialized THEN ErrNotInitialized
               ELSE IF ~dbOpen THEN ErrDB ELSE OK
        match == {i \in DOMAIN passwords :
                    /\ \/ Like(passwords[i].title, params.Keyword)
                       \/ Like(passwords[i].url, params.Keyword)
                       \/ Like(passwords[i].username, params.Keyword)
                    /\ params.Category # "" =>
                         passwords[i].category = params.Category}
        sorted == IF params.SortBy # ""
                  THEN OrderBy(match, params.SortBy, params.SortDesc)
                  ELSE OrderBy(match, "title", FALSE)
        off == IF params.Limit > 0 /\ params.Offset > 0
               THEN params.Offset ELSE 0
        last == IF params.Limit > 0 /\ off + params.Limit < Len(sorted)
                THEN off + params.Limit ELSE Len(sorted)
        page == SubSeq(sorted, off + 1, last)
    IN
    /\ lastOp' = Call("SearchPasswords", 0, err,
                      IF err = OK THEN Listing(page) ELSE <<>>,
                      IF initialized THEN <<"SearchPasswords">> ELSE <<>>)
    /\ UNCHANGED <<initialized, masterKey, dbOpen, config, passwords, seq,
                   files, createdWith, written, nsalt, nnonce, keyBuffer, produced, lockedByLock>>

\* ------------------------------------------------------------------ export / import
\* a nil []byte marshals to JSON null
JSONNull == [kind |-> "null", key |-> NoKey, nonce |-> 0, pt |-> "", enc |-> 0]

\* json.Marshal of a []byte value: null, or a string holding its base64 text
MarshalBytes(b) == IF b.kind = "nil" THEN JSONNull ELSE Base64Encode(b)

\* ExportData + json.Marshal: one JSON object per row, in rowid order
ExportData ==
  LET ids == OrderBy(DOMAIN passwords, "id", FALSE)
  IN [n \in DOMAIN ids |->
        LET row == passwords[ids[n]]
        IN [id |-> ids[n], title |-> row.title, url |-> row.url,
            username |-> row.username, password |-> MarshalBytes(row.password),
            notes |-> MarshalBytes(row.notes), category |-> row.category]]

\* json.Unmarshal into interface{} and binding as an SQL parameter: JSON null
\* is nil (NULL), a JSON string is a Go string bound as text, and the column
\* then holds the bytes of that text
ColumnValue(j) == IF j.kind = "null" THEN NilBytes ELSE j

\* the row ImportData inserts for one unmarshalled entry
ImportRow(entry) ==
  [title |-> entry.title, url |-> entry.url, username |-> entry.username,
   password |-> ColumnValue(entry.password), notes |-> ColumnValue(entry.notes),
   category |-> entry.category]

\* ExportVault(filename); fail names the call that returns an error: a write
\* that fails after the file was opened leaves it truncated
ExportVault(filename) ==
  /\ Tick
  /\ nnonce < MaxNonce
  /\ \E fail \in {"none", "OpenFile", "WriteFile"} :
    LET encData == Encrypt(ExportData, masterKey, RandNonce(1))
        keep == UNCHANGED <<initialized, masterKey, dbOpen, config, passwords,
                            seq, files, createdWith, written, nsalt, nnonce, keyBuffer, produced, lockedByLock>>
    IN
    IF ~initialized
    THEN /\ lastOp' = Call("ExportVault", filename, ErrNotInitialized, <<>>,
                           <<>>)
         /\ keep
    ELSE IF ~dbOpen
    THEN /\ lastOp' = Call("ExportVault", filename, ErrDB, <<>>,
                           <<"ExportData">>)
         /\ keep
    ELSE IF encData.err # OK
    THEN /\ lastOp' = Call("ExportVault", filename, encData.err, <<>>,
                           <<"ExportData">>)
         /\ keep
    ELSE /\ files' = IF fail = "OpenFile" THEN files
                     ELSE IF fail = "WriteFile"
                          THEN Put(files, filename, NilBytes)
                     ELSE Put(files, filename, Base64Encode(encData.val))
         /\ lastOp' = Faulted(Call("ExportVault", filename,
                                   IF fail = "none" THEN OK ELSE ErrWriteFile,
                                   <<>>, <<"ExportData", "WriteFile">>), fail)
         /\ UNCHANGED <<initialized, masterKey, dbOpen, config, passwords,
                        seq, createdWith, written, nsalt, keyBuffer,
                        lockedByLock>>
         /\ nnonce' = nnonce + 1
         /\ produced' = Append(produced, <<masterKey, RandNonce(1)>>)

\* the table after the first n entries were inserted under the next ids
Inserted(entries, n) ==
  [i \in DOMAIN passwords \cup (seq + 1 .. seq + n) |->
     IF i \in DOMAIN passwords THEN passwords[i]
     ELSE ImportRow(entries[i - seq])]

\* ImportData without the Rollback: the rows inserted before the failing
\* INSERT stay
ImportDataNoRollback(entries, fail, k) ==
  IF ~dbOpen \/ fail \in {"Begin", "Prepare"}
  THEN [err |-> ErrDB, passwords |-> passwords, seq |-> seq]
  ELSE IF fail = "Exec" /\ k <= Len(entries)
  THEN [err |-> ErrDB, passwords |-> Inserted(entries, k - 1),
        seq |-> seq + k - 1]
  ELSE IF fail = "Commit"
  THEN [err |-> ErrDB, passwords |-> passwords, seq |-> seq]
  ELSE [err |-> OK, passwords |-> Inserted(entries, Len(entries)),
        seq |-> seq + Len(entries)]

\* ImportData that replaces the table instead of adding to it
ImportDataReplace(entries, fail, k) ==
  IF \/ ~dbOpen
     \/ fail \in {"Begin", "Prepare", "Commit"}
     \/ fail = "Exec" /\ k <= Len(entries)
  THEN [err |-> ErrDB, passwords |-> passwords, seq |-> seq]
  ELSE [err |-> OK,
        passwords |-> [i \in seq + 1 .. seq + Len(entries) |->
                         ImportRow(entries[i - seq])],
        seq |-> seq + Len(entries)]

\* ImportData(entries): all INSERTs in one transaction.  fail names the
\* database call that returns an error ("Exec": the k-th INSERT); on any
\* error the deferred Rollback, or the failed Commit, drops every inserted
\* row and the sequence is as before
ImportData(entries, fail, k) ==
  IF \/ ~dbOpen
     \/ fail \in {"Begin", "Prepare", "Commit"}
     \/ fail = "Exec" /\ k <= Len(entries)
  THEN [err |-> ErrDB, passwords |-> passwords, seq |-> seq]
  ELSE [err |-> OK, passwords |-> Inserted(entries, Len(entries)),
        seq |-> seq + Len(entries)]

\* the database call of ImportData that fails
ImportFault(entries, fail, k) ==
  IF fail \in {"Begin", "Prepare"} THEN fail
  ELSE IF fail = "Exec" /\ k <= Len(entries) THEN "Exec"
  ELSE IF fail = "Commit" THEN "Commit"
  ELSE "none"

\* ImportVault(filename)
ImportVault(filename) ==
  /\ Tick
  /\ \E fail \in {"none", "ReadFile", "Begin", "Prepare", "Exec", "Commit"},
        k \in Ids :
    LET decodedData == Base64Decode(files[filename])
        jsonData == Decrypt(decodedData.val, masterKey)
        entries == jsonData.val
        res == ImportData(entries, fail, k)
        keep == UNCHANGED <<initialized, masterKey, dbOpen, config, passwords,
                            seq, files, createdWith, written, nsalt, nnonce, keyBuffer, produced, lockedByLock>>
    IN
    IF ~initialized
    THEN /\ lastOp' = Call("ImportVault", filename, ErrNotInitialized, <<>>,
                           <<>>)
         /\ keep
    ELSE IF filename \notin DOMAIN files \/ fail = "ReadFile"
    THEN /\ lastOp' = Faulted(Call("ImportVault", filename, ErrReadFile, <<>>,
                                   <<"ReadFile">>), "ReadFile")
         /\ keep
    ELSE IF decodedData.err # OK
    THEN /\ lastOp' = Call("ImportVault", filename, decodedData.err, <<>>,
                           <<"ReadFile">>)
         /\ keep
    ELSE IF jsonData.err # OK
    THEN /\ lastOp' = Call("ImportVault", filename, jsonData.err, <<>>,
                           <<"ReadFile">>)
         /\ keep
    ELSE /\ res.seq <= MaxId
         /\ passwords' = res.passwords
         /\ seq' = res.seq
         /\ lastOp' = Faulted(Call("ImportVault", filename, res.err,
                                   IF ImportFault(entries, fail, k) = "Exec"
                                   THEN <<k>> ELSE <<>>,
                                   <<"ReadFile", "ImportData">>),
                              ImportFault(entries, fail, k))
         /\ UNCHANGED <<initialized, masterKey, dbOpen, config, files,
                        createdWith, written, nsalt, nnonce, keyBuffer, produced, lockedByLock>>

\* ------------------------------------------------------------------ two callers
\* GetPassword(id) of a second goroutine on the same manager, up to the
\* storage call: the initialized check has passed.  key is the value of
\* pm.masterKey at that moment
GetPasswordCheck(id) ==
  /\ inflight.pc = "idle"
  /\ initialized
  /\ ncalls < MaxCalls
  /\ ncalls' = ncalls + 1
  /\ inflight' = [pc |-> "checked", id |-> id, key |-> masterKey]
  /\ UNCHANGED <<initialized, masterKey, dbOpen, config, passwords, seq,
                 files, lastOp, createdWith, written, nsalt, nnonce,
                 keyBuffer, produced, lockedByLock, genVars>>

\* the rest of that GetPassword: the row is read and decrypted under
\* pm.masterKey as read now.  No lock orders this read and the writes of
\* Lock, UnlockVault and CreateMasterPassword: when pm.masterKey was written
\* since the check, the read returns the new value or the one seen before
GetPasswordUse ==
  /\ inflight.pc = "checked"
  /\ \E key \in {masterKey, inflight.key} :
    LET id == inflight.id
        row == passwords[id]
        password == Decrypt(row.password, key)
        notes == IF row.notes.kind # "nil" THEN Decrypt(row.notes, key)
                 ELSE [err |-> OK, val |-> ""]
        err == IF ~dbOpen THEN ErrDB
               ELSE IF id \notin DOMAIN passwords THEN ErrNoRows
               ELSE IF password.err # OK THEN password.err
               ELSE notes.err
    IN lastOp' = Call("GetPassword", id, err,
                      IF err = OK
                      THEN <<Entry(id, row, password.val, notes.val)>>
                      ELSE <<>>,
                      <<"GetPassword">>)
  /\ inflight' = NoCall
  /\ UNCHANGED <<initialized, masterKey, dbOpen, config, passwords, seq,
                 files, createdWith, written, ncalls, nsalt, nnonce,
                 keyBuffer, produced, lockedByLock, genVars>>

\* ------------------------------------------------------------------ generator
\* pkg/generator: the character sets, rune by rune
lowercase ==
  {"a", "b", "c", "d", "e", "f", "g", "h", "i", "j", "k", "l", "m", "n", "o",
   "p", "q", "r", "s", "t", "u", "v", "w", "x", "y", "z"}

uppercase ==
  {"A", "B", "C", "D", "E", "F", "G", "H", "I", "J", "K", "L", "M", "N", "O",
   "P", "Q", "R", "S", "T", "U", "V", "W", "X", "Y", "Z"}

numbers == {"0", "1", "2", "3", "4", "5", "6", "7", "8", "9"}

symbols ==
  {"!", "@", "#", "$", "%", "^", "&", "*", "(", ")", "-", "_", "=", "+", "[",
   "]", "{", "}", "|", ";", ":", ",", ".", "/", "<", ">", "?", "~"}

similar == {"i", "l", "1", "L", "o", "0", "O"}

ambiguous ==
  {"`", "{", "}", "[", "]", "(", ")", "|", "\\", "/", "'", "\"", "~", ",",
   ";", ":", ".", "<", ">"}

ErrLength == "password length must be positive"
ErrNoCharset == "no character set selected"
ErrRand == "<rand reader error>"

\* the PasswordOptions a caller may pass
Lengths == -1..MaxLength

OptionInputs ==
  [Length : Lengths, IncludeLowercase : BOOLEAN, IncludeUppercase : BOOLEAN,
   IncludeNumbers : BOOLEAN, IncludeSymbols : BOOLEAN,
   ExcludeSimilar : BOOLEAN, ExcludeAmbiguous : BOOLEAN]

\* one longer call, of three classes under both exclusions
LongOptions ==
  {[Length |-> MaxLength + 1, IncludeLowercase |-> TRUE,
    IncludeUppercase |-> FALSE, IncludeNumbers |-> TRUE,
    IncludeSymbols |-> TRUE, ExcludeSimilar |-> TRUE,
    ExcludeAmbiguous |-> TRUE]}

containsRune(s, r) == r \in s

\* the runes GeneratePassword appends to chars
CharSet(o) ==
  {c \in lowercase : o.IncludeLowercase
                     /\ ~(o.ExcludeSimilar /\ containsRune(similar, c))}
  \cup
  {c \in uppercase : o.IncludeUppercase
                     /\ ~(o.ExcludeSimilar /\ containsRune(similar, c))}
  \cup
  {c \in numbers : o.IncludeNumbers
                   /\ ~(o.ExcludeSimilar /\ containsRune(similar, c))}
  \cup
  {c \in symbols : o.IncludeSymbols
                   /\ ~(o.ExcludeAmbiguous /\ containsRune(ambiguous, c))}

\* meetsRequirements that accepts every password
meetsRequirementsAlways(password, o) == TRUE

\* meetsRequirements: each rune counts for the first class of the else-if
\* chain that contains it
meetsRequirements(password, o) ==
  LET isLower(c) == containsRune(lowercase, c)
      isUpper(c) == ~isLower(c) /\ containsRune(uppercase, c)
      isNumber(c) == ~isLower(c) /\ ~containsRune(uppercase, c)
                     /\ containsRune(numbers, c)
      isSymbol(c) == ~isLower(c) /\ ~containsRune(uppercase, c)
                     /\ ~containsRune(numbers, c) /\ containsRune(symbols, c)
      has(is(_)) == \E i \in DOMAIN password : is(password[i])
      hasLower == ~o.IncludeLowercase \/ has(isLower)
      hasUpper == ~o.IncludeUppercase \/ has(isUpper)
      hasNumber == ~o.IncludeNumbers \/ has(isNumber)
      hasSymbol == ~o.IncludeSymbols \/ has(isSymbol)
  IN hasLower /\ hasUpper /\ hasNumber /\ hasSymbol

\* GeneratePassword(options), up to the first draw: the length check and the
\* construction of chars
GeneratePasswordBegin ==
  /\ pc = "start"
  /\ IF options.Length <= 0
     THEN pc' = "done" /\ ret' = [val |-> <<>>, err |-> ErrLength]
     ELSE IF CharSet(options) = {}
     THEN pc' = "done" /\ ret' = [val |-> <<>>, err |-> ErrNoCharset]
     ELSE pc' = "draw" /\ ret' = ret
  /\ result' = <<>>
  /\ UNCHANGED <<options, vaultVars>>

\* one turn of the loop: randomInt(len(chars)) returns an index
GeneratePasswordDraw ==
  /\ pc = "draw"
  /\ Len(result) < options.Length
  /\ \E c \in CharSet(options) : result' = Append(result, c)
  /\ UNCHANGED <<options, pc, ret, vaultVars>>

\* one turn of the loop: randomInt returns the error of rand.Int
GeneratePasswordRandError ==
  /\ pc = "draw"
  /\ Len(result) < options.Length
  /\ pc' = "done"
  /\ ret' = [val |-> <<>>, err |-> ErrRand]
  /\ UNCHANGED <<options, result, vaultVars>>

\* after the loop: return the password when it meets the requirements,
\* otherwise return GeneratePassword(options), a new call that starts over
\* (one more stack frame each time; the runtime ends the process when the
\* stack limit is reached, which returns nothing either)
GeneratePasswordCheck ==
  /\ pc = "draw"
  /\ Len(result) = options.Length
  /\ IF meetsRequirements(result, options)
     THEN pc' = "done" /\ ret' = [val |-> result, err |-> OK]
          /\ result' = result
     ELSE pc' = "start" /\ ret' = ret /\ result' = <<>>
  /\ UNCHANGED <<options, vaultVars>>

\* ------------------------------------------------------------------ command-line session
\* IsLocked(): !pm.initialized
IsLocked == ~initialized

\* where a run of main stands between two manager calls, read off the last
\* call: "unlock" at the master-password prompt of unlockVault (after
\* Initialize and after menu choice 9), "create" in createMasterPassword,
\* "menu" in the loop of runCLI, "return" when runCLI has returned with an
\* error and the deferred pm.Close() is due, "exited" after it.
\* This variant enters the menu whatever unlockVault returned.
CliAtIgnoresUnlockError ==
  CASE lastOp.op \in {"Initialize", "Lock"} -> "unlock"
    [] lastOp.op = "UnlockVault" ->
         IF OffersCreation(lastOp.err) THEN "create" ELSE "menu"
    [] lastOp.op = "CreateMasterPassword" -> "menu"
    [] lastOp.op = "Close" -> "exited"
    [] OTHER -> "menu"

CliAt ==
  CASE lastOp.op \in {"Initialize", "Lock"} -> "unlock"
    [] lastOp.op = "UnlockVault" ->
         IF lastOp.err = OK THEN "menu"
         ELSE IF OffersCreation(lastOp.err) THEN "create"
         ELSE "return"
    [] lastOp.op = "CreateMasterPassword" ->
         IF lastOp.err = OK THEN "menu" ELSE "return"
    [] lastOp.op = "Close" -> "exited"
    [] OTHER -> "menu"

\* unlockVault: pm.IsLocked() holds at every prompt (the manager is fresh or
\* was just locked), so the branch that skips the prompt is never taken
CliUnlock(pw) == CliAt = "unlock" /\ IsLocked /\ UnlockVault(pw)

\* createMasterPassword, with a password of eight characters or more typed
\* twice
CliCreate(pw) == CliAt = "create" /\ CreateMasterPassword(pw)

\* menu choices 1, 2, 3, 5, 7 and 8
CliList == CliAt = "menu" /\ GetAllPasswords

CliAdd(entry) == CliAt = "menu" /\ AddPassword(entry)

CliView(id) == CliAt = "menu" /\ GetPassword(id)

CliDelete(id) == CliAt = "menu" /\ DeletePassword(id)

CliExport(filename) == CliAt = "menu" /\ ExportVault(filename)

CliImport(filename) == CliAt = "menu" /\ ImportVault(filename)

\* menu choice 4: GetPassword(id), back to the menu when it fails, else
\* UpdatePassword of the entry it returned with the fields typed in
CliUpdate(id, entry) ==
  /\ CliAt = "menu"
  /\ LET found == /\ initialized /\ dbOpen
                  /\ id \in DOMAIN passwords
                  /\ Decrypt(passwords[id].password, masterKey).err = OK
                  /\ passwords[id].notes.kind # "nil" =>
                       Decrypt(passwords[id].notes, masterKey).err = OK
     IN IF found THEN UpdatePassword(id, entry) ELSE GetPassword(id)

\* menu choice 9: pm.Lock(), then the prompt of unlockVault
CliLock == CliAt = "menu" /\ Lock

\* menu choice 0, a return of runCLI with an error, or a failed read of the
\* terminal at a password prompt: main returns and the deferred pm.Close()
\* runs
CliExit == CliAt \in {"unlock", "create", "menu", "return"} /\ Close

\* the next run of the program on the same database file
CliRestart == CliAt = "exited" /\ NewPasswordManager

\* ------------------------------------------------------------------ specification
Next ==
  \/ \E pw \in MasterPasswords : CreateMasterPassword(pw)
  \/ \E pw \in MasterPasswords : UnlockVault(pw)
  \/ Lock
  \/ Close
  \/ NewPasswordManager
  \/ \E entry \in EntryInputs : AddPassword(entry)
  \/ \E id \in Ids : GetPassword(id)
  \/ GetAllPasswords
  \/ \E id \in Ids, entry \in EntryInputs : UpdatePassword(id, entry)
  \/ \E id \in Ids : DeletePassword(id)
  \/ \E params \in SearchInputs : SearchPasswords(params)
  \/ \E filename \in Filenames : ExportVault(filename)
  \/ \E filename \in Filenames : ImportVault(filename)

Spec == Init /\ [][Next]_vars

\* two callers of one manager: the lifecycle calls and AddPassword of the
\* first interleave with the GetPassword of the second
ConcNext ==
  \/ \E pw \in MasterPasswords : CreateMasterPassword(pw)
  \/ \E pw \in MasterPasswords : UnlockVault(pw)
  \/ Lock
  \/ \E entry \in EntryInputs : AddPassword(entry)
  \/ \E id \in Ids : GetPasswordCheck(id)
  \/ GetPasswordUse

ConcSpec == Init /\ [][ConcNext]_vars

\* the manager as the command line drives it
CliNext ==
  \/ \E pw \in MasterPasswords : CliUnlock(pw)
  \/ \E pw \in MasterPasswords : CliCreate(pw)
  \/ CliList
  \/ \E entry \in EntryInputs : CliAdd(entry)
  \/ \E id \in Ids : CliView(id)
  \/ \E id \in Ids, entry \in EntryInputs : CliUpdate(id, entry)
  \/ \E id \in Ids : CliDelete(id)
  \/ \E filename \in Filenames : CliExport(filename)
  \/ \E filename \in Filenames : CliImport(filename)
  \/ CliLock
  \/ CliExit
  \/ CliRestart

CliSpec == Init /\ [][CliNext]_vars

\* one GeneratePassword call, for every option set
GenInit ==
  /\ VaultInit
  /\ options \in OptionInputs \cup LongOptions
  /\ result = <<>>
  /\ pc = "start"
  /\ ret = [val |-> <<>>, err |-> OK]

GenNext ==
  \/ GeneratePasswordBegin
  \/ GeneratePasswordDraw
  \/ GeneratePasswordRandError
  \/ GeneratePasswordCheck

GenSpec == GenInit /\ [][GenNext]_vars

\* the classes with a rune in s
ClassesOf(s) ==
  {cl \in {lowercase, uppercase, numbers, symbols} :
     \E i \in DOMAIN s : s[i] \in cl}

\* the k-th draw, after k - 1 draws of k - 1 classes, of a rune of one more
\* class
DrawOfNewClass(k) ==
  /\ Len(result) = k - 1
  /\ Cardinality(ClassesOf(result)) = k - 1
  /\ GeneratePasswordDraw
  /\ Cardinality(ClassesOf(result')) = k

\* the call keeps running, and crypto/rand does not avoid forever the runes
\* of the classes an attempt still lacks
GenLive ==
  /\ GenSpec
  /\ WF_vars(GeneratePasswordBegin)
  /\ WF_vars(GeneratePasswordDraw)
  /\ WF_vars(GeneratePasswordCheck)
  /\ \A k \in 1..MaxLength + 1 : SF_vars(DrawOfNewClass(k))

\* ------------------------------------------------------------------ properties
DataOps == {"AddPassword", "GetPassword", "GetAllPasswords", "UpdatePassword",
            "DeletePassword", "SearchPasswords", "ExportVault", "ImportVault"}

\* the record list held by an export file, as ImportVault recovers it under
\* the current key
FileEntries(filename) ==
  Decrypt(Base64Decode(files[filename]).val, masterKey).val

\* the blob a JSON field of an export file was marshalled from
OriginalBlob(j) == IF j.kind = "null" THEN NilBytes ELSE Base64Decode(j).val

\* the errors ImportVault returns for a file it cannot decode or decrypt
InvalidVaultFile == {ErrBase64, ErrShort, ErrAuth}

\* C1: while the vault is not unlocked, every data operation returns the
\* not-initialized error, makes no storage or file call, and leaves the
\* tables and the files as they were.
C1_LockedOpsRejected ==
  [][(lastOp'.op \in DataOps /\ IsLocked) =>
       /\ lastOp'.err = ErrNotInitialized
       /\ lastOp'.calls = <<>>
       /\ UNCHANGED <<config, passwords, seq, files>>]_vars

C1_Witness ==
  /\ lastOp.op = "DeletePassword"
  /\ lastOp.err = ErrNotInitialized
  /\ lastOp.arg \in DOMAIN passwords
  /\ "salt" \in DOMAIN config
  /\ IsLocked

\* C2: once CreateMasterPassword(p) has succeeded and the vault is locked,
\* UnlockVault(p) succeeds and unlocks, and UnlockVault(q) with q # p returns
\* the invalid-master-password error and leaves the vault locked (storage
\* read errors aside).
C2_UnlockOnlyWithCreatedPassword ==
  [][(/\ lastOp'.op = "UnlockVault"
      /\ createdWith # 0
      /\ IsLocked
      /\ lastOp'.err \notin StorageErrors) =>
       IF lastOp'.arg = createdWith
       THEN lastOp'.err = OK /\ initialized'
            /\ masterKey' = DeriveKey(createdWith, config["salt"])
       ELSE lastOp'.err = ErrInvalidMaster /\ ~initialized'
            /\ masterKey' = masterKey]_vars

C2_Witness ==
  /\ lastOp.op = "UnlockVault"
  /\ lastOp.err = ErrInvalidMaster
  /\ createdWith # 0
  /\ lastOp.arg # createdWith
  /\ IsLocked
  /\ masterKey = NoKey

\* C3: a key is held in memory exactly when the vault is unlocked.
C3_KeyHeldIffUnlocked == (masterKey # NoKey) <=> initialized

\* C4: once a salt and a test vector are persisted, no call changes them.
C4_SaltAndTestVectorImmutable ==
  [][({"salt", "test_vector"} \subseteq DOMAIN config) =>
       config' = config]_vars

\* C5: after a successful import, every imported row holds the password and
\* notes blobs of the exported record, byte for byte.
C5_ImportKeepsBlobs ==
  (lastOp.op = "ImportVault" /\ lastOp.err = OK) =>
    LET entries == FileEntries(lastOp.arg)
        n == Len(entries)
    IN \A i \in 1..n :
         /\ passwords[seq - n + i].password = OriginalBlob(entries[i].password)
         /\ passwords[seq - n + i].notes = OriginalBlob(entries[i].notes)

C7_ImportAllOrNothing ==
  [][(lastOp'.op = "ImportVault") =>
       /\ lastOp'.fault \in {"Begin", "Prepare", "Exec", "Commit"} =>
            lastOp'.err = ErrDB
       /\ lastOp'.err # OK => passwords' = passwords /\ seq' = seq]_vars

C7_Witness ==
  /\ lastOp.op = "ImportVault"
  /\ lastOp.fault = "Exec"
  /\ lastOp.out = <<2>>
  /\ lastOp.err = ErrDB
  /\ Len(FileEntries(lastOp.arg)) = 2
  /\ DOMAIN passwords = {1, 2}

\* C8: importing a file whose blob was encrypted under another key than the
\* one held returns a decryption error, which is not the error UnlockVault
\* returns for a wrong master password, inserts nothing and leaves the vault
\* unlocked.
C8_ImportUnderOtherKeyRejected ==
  [][(/\ lastOp'.op = "ImportVault"
      /\ initialized
      /\ lastOp'.arg \in DOMAIN files
      /\ files[lastOp'.arg].kind = "ct"
      /\ files[lastOp'.arg].key # masterKey
      /\ lastOp'.fault # "ReadFile") =>
       /\ lastOp'.err = ErrAuth
       /\ lastOp'.err \in InvalidVaultFile
       /\ lastOp'.err # ErrInvalidMaster
       /\ passwords' = passwords /\ seq' = seq
       /\ initialized' /\ masterKey' = masterKey]_vars

C8_Witness ==
  /\ lastOp.op = "ImportVault"
  /\ lastOp.err = ErrAuth
  /\ initialized
  /\ files[lastOp.arg].key # masterKey
  /\ Len(files[lastOp.arg].pt) > 0

\* C9: in an unlocked vault, GetPassword of an id that AddPassword or
\* UpdatePassword last wrote with (P, N), in the same vault, returns password P
\* and notes N.
C9_RecordRoundTrip ==
  (/\ lastOp.op = "GetPassword"
   /\ initialized
   /\ lastOp.arg \in DOMAIN written) =>
    /\ lastOp.err = OK
    /\ lastOp.out[1].Password = written[lastOp.arg][1]
    /\ lastOp.out[1].Notes = written[lastOp.arg][2]

C9_Witness ==
  /\ lastOp.op = "GetPassword"
  /\ lastOp.err = OK
  /\ lastOp.arg \in DOMAIN written
  /\ lastOp.out[1].Password = "b"
  /\ lastOp.out[1].Notes = "n"

\* C10: the password column of every row is a blob encrypted under a master
\* key, and the notes column is NULL or such a blob.
C10_OnlyCiphertextStored ==
  \A id \in DOMAIN passwords :
    LET row == passwords[id]
        IsBlob(b) == b.kind = "ct" /\ b.enc = 0 /\ b.key # NoKey
    IN /\ IsBlob(row.password)
       /\ row.notes.kind = "nil" \/ IsBlob(row.notes)

\* C11: every entry returned by GetAllPasswords and SearchPasswords has an
\* empty Password and an empty Notes field, whatever the table holds and
\* whatever the search parameters are.
C11_ListingHidesSecrets ==
  (lastOp.op \in {"GetAllPasswords", "SearchPasswords"} /\ lastOp.err = OK) =>
    \A n \in DOMAIN lastOp.out :
      lastOp.out[n].Password = "" /\ lastOp.out[n].Notes = ""

C11_Witness ==
  /\ lastOp.op = "SearchPasswords"
  /\ lastOp.err = OK
  /\ Len(lastOp.out) = 1
  /\ passwords[lastOp.out[1].ID].password.kind = "ct"
  /\ passwords[lastOp.out[1].ID].notes.kind = "ct"
  /\ passwords[lastOp.out[1].ID].password.key = masterKey
  /\ lastOp.out[1].Password = ""

\* C12: Lock leaves the vault locked with no key held and the connection as
\* it was, and every data operation called after Lock and before the next
\* successful UnlockVault or CreateMasterPassword returns the not-initialized
\* error without a storage call, also while the connection is open.
C12_LockedUntilUnlock ==
  [][/\ lastOp'.op = "Lock" =>
          IsLocked' /\ masterKey' = NoKey /\ dbOpen' = dbOpen
     /\ (lockedByLock /\ lastOp'.op \in DataOps) =>
          /\ lastOp'.err = ErrNotInitialized
          /\ lastOp'.calls = <<>>
          /\ IsLocked']_vars

C12_Witness ==
  /\ lockedByLock
  /\ dbOpen
  /\ lastOp.op = "GetPassword"
  /\ lastOp.arg \in DOMAIN passwords
  /\ lastOp.err = ErrNotInitialized

\* C13: after Lock, the byte array that held the master key no longer holds
\* the key bytes.
C13_LockZeroesKey == (lastOp.op = "Lock") => keyBuffer = NoKey

\* C14: CreateMasterPassword(p) on a store without a salt, when both writes
\* are accepted, returns nil, persists a salt and a test vector that is the
\* fixed text encrypted under the key derived from (p, salt), holds that key
\* and is unlocked; when a write fails it returns that write's error and the
\* vault is not unlocked.
C14_CreatePersistsAndUnlocks ==
  [][(lastOp'.op = "CreateMasterPassword" /\ "salt" \notin DOMAIN config) =>
       IF lastOp'.fault = "none"
       THEN /\ lastOp'.err = OK
            /\ {"salt", "test_vector"} \subseteq DOMAIN config'
            /\ config'["test_vector"].kind = "ct"
            /\ config'["test_vector"].enc = 0
            /\ config'["test_vector"].pt = testData
            /\ config'["test_vector"].key =
                 [pw |-> lastOp'.arg, salt |-> config'["salt"]]
            /\ masterKey' = config'["test_vector"].key
            /\ ~IsLocked'
       ELSE /\ lastOp'.err \in {ErrSaveSalt, ErrSaveTestVector}
            /\ lastOp'.err \in StorageErrors
            /\ IsLocked']_vars

C14_Witness ==
  /\ lastOp.op = "CreateMasterPassword"
  /\ lastOp.err = OK
  /\ nsalt = 1
  /\ config["test_vector"].key = masterKey
  /\ masterKey = [pw |-> lastOp.arg, salt |-> config["salt"]]
  /\ initialized

C16_FailedUnlockKeepsStore ==
  [][(lastOp'.op = "UnlockVault" /\ lastOp'.err # OK) =>
       UNCHANGED <<config, passwords, seq>>]_vars

C16_Witness ==
  /\ lastOp.op = "UnlockVault"
  /\ lastOp.err = ErrInvalidMaster
  /\ DOMAIN passwords # {}
  /\ {"salt", "test_vector"} \subseteq DOMAIN config

\* C17: Close locks the manager and closes the connection: after Close,
\* whether or not the storage reported an error, the vault is locked, no key
\* is held and the connection is closed.
C17_CloseLocks ==
  [][(lastOp'.op = "Close") =>
       /\ IsLocked'
       /\ masterKey' = NoKey
       /\ lockedByLock'
       /\ ~dbOpen'
       /\ lastOp'.calls = <<"Close">>]_vars

C17_Witness ==
  /\ lastOp.op = "Close"
  /\ lastOp.err = ErrDB
  /\ keyBuffer # NoKey
  /\ createdWith # 0
  /\ masterKey = NoKey
  /\ IsLocked

\* C20: no two blobs Encrypt has returned carry the same nonce under the same
\* key: test vectors, password fields, notes fields and export blobs alike.
C20_NonceNeverReused ==
  \A i \in DOMAIN produced, j \in DOMAIN produced :
    i # j => produced[i] # produced[j]

C20_Witness ==
  /\ lastOp.op = "ExportVault"
  /\ lastOp.err = OK
  /\ Len(produced) = 4
  /\ \A i \in DOMAIN produced : produced[i][1] = masterKey
  /\ \E id \in DOMAIN passwords : passwords[id].notes.kind = "ct"

\* the classes an option set asks for
Requested(o) ==
  {cl \in {lowercase, uppercase, numbers, symbols} :
     \/ cl = lowercase /\ o.IncludeLowercase
     \/ cl = uppercase /\ o.IncludeUppercase
     \/ cl = numbers /\ o.IncludeNumbers
     \/ cl = symbols /\ o.IncludeSymbols}

\* C18: a GeneratePassword call with Length >= 1 and at least one class
\* asked for eventually returns, a password or an error.
C18_GenerateReturns ==
  (pc = "start" /\ options.Length >= 1 /\ Requested(options) # {})
    ~> (pc = "done")

\* C19: a password GeneratePassword returns has exactly Length runes, at
\* least one of every class asked for, and only runes of the classes asked
\* for that the similar / ambiguous exclusions leave; with Length <= 0 or no
\* class asked for it returns an error and no password.
C19_GeneratedPasswordMeetsOptions ==
  (pc = "done") =>
    /\ (ret.err = OK) =>
         /\ Len(ret.val) = options.Length
         /\ \A cl \in Requested(options) :
              \E i \in DOMAIN ret.val : ret.val[i] \in cl
         /\ \A i \in DOMAIN ret.val :
              /\ \E cl \in Requested(options) : ret.val[i] \in cl
              /\ options.ExcludeSimilar => ret.val[i] \notin similar
              /\ options.ExcludeAmbiguous => ret.val[i] \notin ambiguous
    /\ (options.Length <= 0 \/ Requested(options) = {}) =>
         ret.err # OK /\ ret.val = <<>>

C19_Witness ==
  /\ pc = "done"
  /\ ret.err = OK
  /\ Len(ret.val) = 3
  /\ Cardinality(Requested(options)) = 3
  /\ options.ExcludeSimilar /\ options.ExcludeAmbiguous
  /\ ret.val[1] \in symbols /\ ret.val[2] \in numbers
  /\ ret.val[3] \in lowercase

\* C21: no Lock, UnlockVault or CreateMasterPassword takes effect between
\* the initialized check of a data operation and its use of the master key:
\* while a GetPassword is between the two, the manager is unlocked and holds
\* the key it held at the check.
C21_KeyUseExcludesLock ==
  (inflight.pc = "checked") => initialized /\ masterKey = inflight.key

\* C22: in every unlocked state, every row of the passwords table decrypts
\* under the key held, so GetPassword of a present id does not fail.
C22_HeldKeyOpensEveryRow ==
  initialized =>
    \A id \in DOMAIN passwords :
      /\ Decrypt(passwords[id].password, masterKey).err = OK
      /\ passwords[id].notes.kind # "nil" =>
           Decrypt(passwords[id].notes, masterKey).err = OK

\* C23: with the storage answering and a salt persisted, UnlockVault(p)
\* returns nil exactly when the persisted test vector is a blob sealed under
\* derive(p, salt), whatever its plaintext, and otherwise (no test vector, a
\* test vector under another key) it returns the invalid-master-password
\* error, and a locked vault stays locked.
C23_UnlockByTestVectorOnly ==
  [][(/\ lastOp'.op = "UnlockVault"
      /\ "salt" \in DOMAIN config
      /\ lastOp'.fault = "none"
      /\ lastOp'.err \notin StorageErrors) =>
       LET tv == IF "test_vector" \in DOMAIN config
                 THEN config["test_vector"] ELSE NilBytes
           opens == /\ tv.kind = "ct"
                    /\ tv.enc = 0
                    /\ tv.key = [pw |-> lastOp'.arg, salt |-> config["salt"]]
       IN IF opens
          THEN lastOp'.err = OK /\ initialized'
          ELSE /\ lastOp'.err = ErrInvalidMaster
               /\ initialized' = initialized
               /\ masterKey' = masterKey]_vars

C23_Witness ==
  /\ lastOp.op = "UnlockVault"
  /\ lastOp.err = ErrInvalidMaster
  /\ "salt" \in DOMAIN config
  /\ "test_vector" \notin DOMAIN config
  /\ IsLocked
  /\ dbOpen

\* C24: the ids of the rows a call adds are larger than every id assigned
\* before, deleted ones included (the sequence never goes back and no row
\* lies above it), and UpdatePassword leaves the set of ids as it is.
C24_IdsNeverReused ==
  [][/\ seq' >= seq
     /\ \A id \in DOMAIN passwords : id <= seq
     /\ \A id \in DOMAIN passwords' \ DOMAIN passwords : seq < id /\ id <= seq'
     /\ lastOp'.op = "UpdatePassword" =>
          DOMAIN passwords' = DOMAIN passwords]_vars

C24_Witness ==
  /\ lastOp.op = "AddPassword"
  /\ lastOp.err = OK
  /\ lastOp.arg = 3
  /\ DOMAIN passwords = {1, 3}

\* C25: a salt is persisted exactly when a test vector is persisted.
C25_SaltIffTestVector ==
  ("salt" \in DOMAIN config) <=> ("test_vector" \in DOMAIN config)

\* C28: in an unlocked vault with the storage answering, UpdatePassword and
\* DeletePassword of an id that is not in the table return nil and leave
\* the table as it is, and DeletePassword of an id in the table removes that
\* row and no other.
C28_AbsentIdIsNoOp ==
  [][(/\ lastOp'.op \in {"UpdatePassword", "DeletePassword"}
      /\ initialized /\ dbOpen) =>
       /\ lastOp'.err = OK
       /\ lastOp'.arg \notin DOMAIN passwords => passwords' = passwords
       /\ lastOp'.op = "DeletePassword" =>
            /\ DOMAIN passwords' = DOMAIN passwords \ {lastOp'.arg}
            /\ \A id \in DOMAIN passwords' : passwords'[id] = passwords[id]]_vars

C28_Witness ==
  /\ lastOp.op = "DeletePassword"
  /\ lastOp.err = OK
  /\ lastOp.arg = 1
  /\ seq = 2
  /\ DOMAIN passwords = {2}
  /\ initialized

\* C26: in a command-line session every data call is made on an unlocked
\* manager and none returns the not-initialized error; after Lock the next
\* call is UnlockVault (or the Close of a session that ends); a data call
\* follows an UnlockVault or a CreateMasterPassword only when that call
\* returned nil, and after an UnlockVault that failed for another reason
\* than the missing salt the next call is the Close that ends the session.
C26_CliDataOnlyUnlocked ==
  [][/\ lastOp'.op \in DataOps =>
          /\ ~IsLocked
          /\ lastOp'.err # ErrNotInitialized
          /\ lastOp.op \in {"UnlockVault", "CreateMasterPassword"} =>
               lastOp.err = OK
     /\ (lockedByLock \/ lastOp.op = "Lock") =>
          lastOp'.op \in {"UnlockVault", "Close", "Initialize"}
     /\ (lastOp.op = "UnlockVault" /\ lastOp.err # OK
         /\ ~OffersCreation(lastOp.err)) =>
          lastOp'.op = "Close"]_vars

C26_Witness ==
  /\ lastOp.op = "UnlockVault"
  /\ lastOp.err = ErrInvalidMaster
  /\ lockedByLock
  /\ DOMAIN passwords # {}
  /\ CliAt = "return"

\* C27: in a command-line session CreateMasterPassword is called only right
\* after an UnlockVault that returned the no-salt error, on a store that holds
\* no salt, and no step of the session changes or removes a salt or a test
\* vector that is persisted.
C27_CliCreatesOnlyWithoutSalt ==
  [][/\ lastOp'.op = "CreateMasterPassword" =>
          /\ lastOp.op = "UnlockVault"
          /\ lastOp.err = ErrNoSalt
          /\ "salt" \notin DOMAIN config
     /\ \A k \in DOMAIN config :
          k \in DOMAIN config' /\ config'[k] = config[k]]_vars

C27_Witness ==
  /\ lastOp.op = "CreateMasterPassword"
  /\ lastOp.err = OK
  /\ "salt" \in DOMAIN config
  /\ "test_vector" \in DOMAIN config
  /\ createdWith # 0
  /\ ~IsLocked

====
